---- MODULE Spec2Model ----
(***************************************************************************)
(* Typed blackboard store and the triangle agent chain.                    *)
(*                                                                         *)
(* The repository holds the same program twice: the C++ program            *)
(* (sc::MemoryContext, two std::map) and its C port (sc_memory_context, a   *)
(* growable array searched linearly).  The variable impl says which of the *)
(* two a behaviour runs; both are translated from their source.            *)
(*                                                                         *)
(* Both stores keep POINTERS to objects of their caller, so the model has  *)
(* a heap of objects: the store maps a key to a handle, the heap maps a    *)
(* handle to the object.  Angles are doubles in the source; here they are  *)
(* fixed-point integers, UnitsPerDegree units to one degree, so that the   *)
(* 0.001 tolerance is Tolerance units wide and both sides of it exist.     *)
(***************************************************************************)
EXTENDS Integers, Sequences, FiniteSets, TLC

\* ------------------------------------------------------------------------
\* Bounds of the model
\* ------------------------------------------------------------------------
\* sc_memory_init is given an initial capacity of at most MaxInitCap.
MaxInitCap == 2

\* ------------------------------------------------------------------------
\* Numbers of the program
\* ------------------------------------------------------------------------
UnitsPerDegree == 2000
\* 0.001 degree
Tolerance == 2
\* 90.0 and 180.0 degrees
RightAngle == 180000
StraightAngle == 360000
\* main: sc_memory_init(&ctx, 10)
MainCapacity == 10

Deg(d) == d * UnitsPerDegree

\* ------------------------------------------------------------------------
\* Keys, payload types, handles
\* ------------------------------------------------------------------------
K_TRI == "input_triangle"
K_RULES == "rules_set"
K_CLS == "is_right_triangle"
Keys == {K_TRI, K_RULES, K_CLS}

\* The payload types a caller can ask for.
Types == {"Triangle", "bool", "rules"}

\* The tag recorded for a payload type: typeid(T).name() in the C++ program,
\* the string literal the caller passes in the C port.
EmptyTag == ""
TypeTag(i, T) ==
    IF i = "cpp"
    THEN CASE T = "Triangle" -> "8Triangle"
           [] T = "bool" -> "b"
           [] T = "rules" -> "St3mapISsSs"
    ELSE CASE T = "Triangle" -> "triangle"
           [] T = "bool" -> "int"
           [] T = "rules" -> "rules_set"

NULL == "nullptr"
\* Objects of the caller (main's triangle1, triangle2, rules, and a boolean of
\* the caller), and the local is_right of CheckRightAngleAgent::execute.
H_TRI1 == "triangle1"
H_TRI2 == "triangle2"
H_RULES == "rules"
H_FLAG == "flag"
H_LOCAL == "is_right"
CallerHandles == {H_TRI1, H_TRI2, H_RULES, H_FLAG}
Handles == CallerHandles \cup {H_LOCAL}

Angle(v, k) == [value |-> v, is_known |-> k]
Triangle(a, b, c) == <<a, b, c>>

\* main's two test triangles
triangle1 == Triangle(Angle(Deg(90), TRUE), Angle(Deg(45), TRUE), Angle(0, FALSE))
triangle2 == Triangle(Angle(Deg(60), TRUE), Angle(Deg(60), TRUE), Angle(0, FALSE))

Object(kind, val) == [kind |-> kind, live |-> TRUE, val |-> val]

VARIABLES
    impl,       \* "cpp" or "c": which of the two programs runs
    alive,      \* FALSE once the process has exited or run into undefined behaviour
    heap,       \* handle -> object (kind, live, val)
    data,       \* C++: std::map<std::string, void*> data
    types,      \* C++: std::map<std::string, std::string> types
    entries,    \* C: ctx->entries[0 .. size-1], as a sequence; size is Len(entries)
    capacity,   \* C: ctx->capacity
    pc,         \* stage of the pipeline invocation, "idle" outside one
    events,     \* events logged by the current top-level invocation
    calls,      \* steps the current pipeline invocation has called, with outcomes
    last,       \* the operation just performed and how it ended
    lastStored, \* history: key -> the (type, handle) of the latest store, or NoEntry
    rerun       \* history: this invocation began right after a successful one returned

vars == <<impl, alive, heap, data, types, entries, capacity, pc, events, calls,
          last, lastStored, rerun>>

\* ------------------------------------------------------------------------
\* The machine state the operations transform
\* ------------------------------------------------------------------------
Cur == [heap |-> heap, data |-> data, types |-> types, entries |-> entries,
        capacity |-> capacity, alive |-> alive, events |-> events]

Install(m) ==
    /\ heap' = m.heap
    /\ data' = m.data
    /\ types' = m.types
    /\ entries' = m.entries
    /\ capacity' = m.capacity
    /\ alive' = m.alive
    /\ events' = m.events

\* How an operation ends: the machine after it, its outcome, its return value.
R(m, outcome, ret) == [m |-> m, outcome |-> outcome, ret |-> ret]

EmptyMap == [k \in {} |-> NULL]
MapPut(f, k, v) == [x \in (DOMAIN f) \cup {k} |-> IF x = k THEN v ELSE f[x]]

\* std::map::operator[] inserts a value-initialized element for a missing key.
MapIndex(f, k, dflt) == IF k \in DOMAIN f THEN f ELSE MapPut(f, k, dflt)

\* ------------------------------------------------------------------------
\* C++: sc::MemoryContext
\* ------------------------------------------------------------------------
\* A store that records the tag with insert(), which keeps the tag of a key
\* that is already there.
store_KeepsOldTag(m, addr, value, T) ==
    R([m EXCEPT !.data = MapPut(@, addr, value),
                !.types = MapIndex(@, addr, TypeTag("cpp", T))],
      "Ok", NULL)

\* data[addr] = value; types[addr] = typeid(T).name();
store(m, addr, value, T) ==
    R([m EXCEPT !.data = MapPut(@, addr, value),
                !.types = MapPut(@, addr, TypeTag("cpp", T))],
      "Ok", NULL)

\* A get that hands out data[addr] without comparing the tag.
get_NoTagCheck(m, addr, T) ==
    LET da == MapIndex(m.data, addr, NULL)
    IN  R([m EXCEPT !.data = da], "Ok", da[addr])

\* if (types[addr] != typeid(T).name()) throw runtime_error("Type mismatch ...");
\* return static_cast<T*>(data[addr]);
get(m, addr, T) ==
    LET ty == MapIndex(m.types, addr, EmptyTag)
        m1 == [m EXCEPT !.types = ty]
    IN  IF ty[addr] /= TypeTag("cpp", T)
        THEN R(m1, "TypeMismatch", NULL)
        ELSE LET da == MapIndex(m1.data, addr, NULL)
             IN  R([m1 EXCEPT !.data = da], "Ok", da[addr])

\* ------------------------------------------------------------------------
\* C: sc_memory_context
\* ------------------------------------------------------------------------
\* Index of the first entry whose addr is addr, 0 when there is none.
FindEntry(es, addr) ==
    LET S == {i \in 1..Len(es) : es[i].addr = addr}
    IN  IF S = {} THEN 0 ELSE CHOOSE i \in S : \A j \in S : i <= j

sc_memory_init(m, initial_capacity) ==
    [m EXCEPT !.entries = <<>>, !.capacity = initial_capacity]

\* A store that appends without looking for the key first.
sc_memory_store_NoSearch(m, addr, d, type) ==
    LET cap == IF Len(m.entries) >= m.capacity THEN m.capacity * 2 ELSE m.capacity
    IN  R([m EXCEPT !.capacity = cap,
                    !.entries = Append(@, [addr |-> addr, data |-> d, type |-> type])],
          "Ok", NULL)

sc_memory_store(m, addr, d, type) ==
    LET i == FindEntry(m.entries, addr)
    IN  IF i /= 0
        THEN R([m EXCEPT !.entries[i].data = d, !.entries[i].type = type], "Ok", NULL)
        ELSE LET cap == IF Len(m.entries) >= m.capacity
                        THEN m.capacity * 2 ELSE m.capacity
             IN  IF Len(m.entries) >= cap
                 THEN \* entries[size] lies outside the allocation
                      R([m EXCEPT !.capacity = cap, !.alive = FALSE], "Undefined", NULL)
                 ELSE R([m EXCEPT !.capacity = cap,
                                  !.entries = Append(@, [addr |-> addr, data |-> d,
                                                         type |-> type])],
                        "Ok", NULL)

\* A tag mismatch prints to stderr and exits the process; a missing key
\* returns NULL.
sc_memory_get(m, addr, type) ==
    LET i == FindEntry(m.entries, addr)
    IN  IF i /= 0
        THEN IF m.entries[i].type /= type
             THEN R([m EXCEPT !.alive = FALSE], "TypeMismatch", NULL)
             ELSE R(m, "Ok", m.entries[i].data)
        ELSE R(m, "Null", NULL)

\* ------------------------------------------------------------------------
\* The store of the running program
\* ------------------------------------------------------------------------
StoreOp(m, k, h, T) ==
    IF impl = "cpp" THEN store(m, k, h, T)
    ELSE sc_memory_store(m, k, h, TypeTag("c", T))

GetOp(m, k, T) ==
    IF impl = "cpp" THEN get(m, k, T)
    ELSE sc_memory_get(m, k, TypeTag("c", T))

\* Keys the store has an entry for (an entry with a value).
StoredKeys(m) ==
    IF impl = "cpp" THEN DOMAIN m.data
    ELSE {m.entries[i].addr : i \in 1..Len(m.entries)}

\* Number of entries held for key k.
EntryCount(m, k) ==
    IF impl = "cpp" THEN (IF k \in DOMAIN m.data THEN 1 ELSE 0)
    ELSE Cardinality({i \in 1..Len(m.entries) : m.entries[i].addr = k})

\* The (tag, handle) the store holds for a stored key k.
EntryOf(m, k) ==
    IF impl = "cpp" THEN [type |-> m.types[k], data |-> m.data[k]]
    ELSE LET i == FindEntry(m.entries, k)
         IN  [type |-> m.entries[i].type, data |-> m.entries[i].data]

KindOf(h) == heap[h].kind

\* History of a key no store has been made to.
NoEntry == [type |-> "-", handle |-> NULL]

\* The record of an operation: its name and arguments, how it ended, what it
\* returned, and (for a store, and for the classification step, which stores)
\* what the latest store to that key had been.
Op(name, k, T, h, outcome, ret, prev) ==
    [op |-> name, key |-> k, type |-> T, handle |-> h, outcome |-> outcome,
     ret |-> ret, prev |-> prev]

NoOp == Op("none", "-", "-", NULL, "-", NULL, NoEntry)

HeapInit(t1, t2) ==
    [h \in Handles |->
        CASE h = H_TRI1 -> Object("Triangle", t1)
          [] h = H_TRI2 -> Object("Triangle", t2)
          [] h = H_RULES -> Object("rules", "right_angle_threshold")
          [] h = H_FLAG -> Object("bool", TRUE)
          [] h = H_LOCAL -> [kind |-> "bool", live |-> FALSE, val |-> FALSE]]

\* ------------------------------------------------------------------------
\* The store alone: a caller doing any sequence of store and get
\* ------------------------------------------------------------------------
InitStore ==
    /\ impl \in {"cpp", "c"}
    /\ alive = TRUE
    /\ heap = HeapInit(triangle1, triangle2)
    /\ data = EmptyMap
    /\ types = EmptyMap
    /\ entries = <<>>
    /\ capacity \in (IF impl = "c" THEN 1..MaxInitCap ELSE {0})
    /\ pc = "idle"
    /\ events = <<>>
    /\ calls = <<>>
    /\ last = NoOp
    /\ lastStored = [k \in Keys |-> NoEntry]
    /\ rerun = FALSE

\* ctx.store(k, &object) / sc_memory_store(&ctx, k, &object, tag of its type)
CallerStore(k, h) ==
    /\ alive
    /\ pc = "idle"
    /\ LET r == StoreOp(Cur, k, h, KindOf(h))
       IN  /\ Install(r.m)
           /\ last' = Op("store", k, KindOf(h), h, r.outcome, r.ret, lastStored[k])
           /\ lastStored' = [lastStored EXCEPT ![k] = [type |-> KindOf(h), handle |-> h]]
    /\ rerun' = FALSE
    /\ UNCHANGED <<impl, pc, calls>>

\* ctx.get<T>(k) / sc_memory_get(&ctx, k, tag of T)
CallerGet(k, T) ==
    /\ alive
    /\ pc = "idle"
    /\ LET r == GetOp(Cur, k, T)
       IN  /\ Install(r.m)
           /\ last' = Op("get", k, T, NULL, r.outcome, r.ret, NoEntry)
    /\ rerun' = FALSE
    /\ UNCHANGED <<impl, pc, calls, lastStored>>

NextStore ==
    \/ \E k \in Keys, h \in CallerHandles : CallerStore(k, h)
    \/ \E k \in Keys, T \in Types : CallerGet(k, T)

SpecStore == InitStore /\ [][NextStore]_vars

\* ------------------------------------------------------------------------
\* Triangles
\* ------------------------------------------------------------------------
Abs(x) == IF x < 0 THEN -x ELSE x

\* Number of angles with is_known false (the first loop of execute).
unknown_count(t) == Cardinality({i \in 1..3 : ~t[i].is_known})

\* Sum of the values of the angles with is_known true (the first loop).
sum_known(t) ==
    (IF t[1].is_known THEN t[1].value ELSE 0)
  + (IF t[2].is_known THEN t[2].value ELSE 0)
  + (IF t[3].is_known THEN t[3].value ELSE 0)

\* The first angle, in array order, with is_known false (the second loop).
FirstUnknown(t) == CHOOSE i \in 1..3 : ~t[i].is_known /\ \A j \in 1..(i-1) : t[j].is_known

\* angle.value = 180.0 - sum_known
CompletedValue(t) == StraightAngle - sum_known(t)

\* angle.is_known && abs(angle.value - 90.0) < 0.001
IsRightAngle(a) == a.is_known /\ Abs(a.value - RightAngle) < Tolerance

\* The loop of CheckRightAngleAgent::execute: does any angle match
AnyRightAngle(t) == \E i \in 1..3 : IsRightAngle(t[i])

Event(name, v) == [ev |-> name, val |-> v]
Log(m, name, v) == [m EXCEPT !.events = Append(@, Event(name, v))]

\* ------------------------------------------------------------------------
\* AngleCompletionStep
\* ------------------------------------------------------------------------
\* A completion that marks the angles known while it counts them, before it
\* knows whether exactly one was unknown.
CompleteAngles_MarksWhileCounting(m, tri) ==
    LET t == m.heap[tri].val
        marked == [i \in 1..3 |-> Angle(t[i].value, TRUE)]
    IN  IF unknown_count(t) = 1
        THEN LET i == FirstUnknown(t)
                 v == CompletedValue(t)
                 m1 == [m EXCEPT !.heap[tri].val[i] = Angle(v, TRUE)]
             IN  R(Log(m1, "calculated", v), "Ok", NULL)
        ELSE R(Log([m EXCEPT !.heap[tri].val = marked], "angle_error", 0), "Error", NULL)

\* A variant that writes the completed value to the first angle, known or not.
CompleteAngles_WritesFirst(m, tri) ==
    LET t == m.heap[tri].val
    IN  IF unknown_count(t) = 1
        THEN LET v == CompletedValue(t)
                 m1 == [m EXCEPT !.heap[tri].val[1] = Angle(v, TRUE)]
             IN  R(Log(m1, "calculated", v), "Ok", NULL)
        ELSE R(Log(m, "angle_error", 0), "Error", NULL)

\* A variant that returns the failure without emitting the error event.
CompleteAngles_SilentError(m, tri) ==
    LET t == m.heap[tri].val
    IN  IF unknown_count(t) = 1
        THEN LET i == FirstUnknown(t)
                 v == CompletedValue(t)
                 m1 == [m EXCEPT !.heap[tri].val[i] = Angle(v, TRUE)]
             IN  R(Log(m1, "calculated", v), "Ok", NULL)
        ELSE R(m, "Error", NULL)

\* A variant that takes a triangle with no unknown angle as already done.
CompleteAngles_AcceptsComplete(m, tri) ==
    LET t == m.heap[tri].val
    IN  IF unknown_count(t) = 0
        THEN R(m, "Ok", NULL)
        ELSE IF unknown_count(t) = 1
             THEN LET i == FirstUnknown(t)
                      v == CompletedValue(t)
                      m1 == [m EXCEPT !.heap[tri].val[i] = Angle(v, TRUE)]
                  IN  R(Log(m1, "calculated", v), "Ok", NULL)
             ELSE R(Log(m, "angle_error", 0), "Error", NULL)

\* The body of execute once the triangle pointer tri is at hand.
CompleteAngles(m, tri) ==
    LET t == m.heap[tri].val
    IN  IF unknown_count(t) = 1
        THEN LET i == FirstUnknown(t)
                 v == CompletedValue(t)
                 m1 == [m EXCEPT !.heap[tri].val[i] = Angle(v, TRUE)]
             IN  R(Log(m1, "calculated", v), "Ok", NULL)
        ELSE R(Log(m, "angle_error", 0), "Error", NULL)

\* C++: both gets come first; an exception of either leaves execute.
CalculateAnglesAgent_execute(m) ==
    LET g1 == get(m, K_TRI, "Triangle")
    IN  IF g1.outcome /= "Ok" THEN R(g1.m, g1.outcome, NULL)
        ELSE LET g2 == get(g1.m, K_RULES, "rules")
             IN  IF g2.outcome /= "Ok" THEN R(g2.m, g2.outcome, NULL)
                 ELSE CompleteAngles(g2.m, g1.ret)

\* C: one get; the pointer it returns is used unchecked.
calculate_angles_agent_execute(m) ==
    LET g1 == sc_memory_get(m, K_TRI, TypeTag("c", "Triangle"))
    IN  CASE g1.outcome = "TypeMismatch" -> R(g1.m, "TypeMismatch", NULL)
          [] g1.outcome = "Null" -> R([g1.m EXCEPT !.alive = FALSE], "Undefined", NULL)
          [] OTHER -> CompleteAngles(g1.m, g1.ret)

\* ------------------------------------------------------------------------
\* RightAngleClassificationStep
\* ------------------------------------------------------------------------
\* The local is_right is given its value, its address is stored under the
\* classification key, and its lifetime ends when execute returns: the entry
\* then holds the address of a dead object (val keeps what the object held at
\* the store).
\* A step that adds a new entry on every run in the C port.
StoreLocal_Appends(m, b) ==
    LET m1 == [m EXCEPT !.heap[H_LOCAL] = Object("bool", b)]
        s == IF impl = "cpp" THEN store(m1, K_CLS, H_LOCAL, "bool")
             ELSE sc_memory_store_NoSearch(m1, K_CLS, H_LOCAL, TypeTag("c", "bool"))
    IN  s

StoreLocal(m, b) ==
    LET m1 == [m EXCEPT !.heap[H_LOCAL] = Object("bool", b)]
        s == IF impl = "cpp" THEN store(m1, K_CLS, H_LOCAL, "bool")
             ELSE sc_memory_store(m1, K_CLS, H_LOCAL, TypeTag("c", "bool"))
    IN  s

EndOfLocal(m) == [m EXCEPT !.heap[H_LOCAL].live = FALSE]

\* The body of execute once the triangle pointer tri is at hand.
ClassifyRight(m, tri) ==
    LET t == m.heap[tri].val
    IN  IF AnyRightAngle(t)
        THEN LET s == StoreLocal(m, TRUE)
             IN  IF s.outcome /= "Ok" THEN s
                 ELSE R(EndOfLocal(Log(s.m, "right_detected", 0)), "Ok", NULL)
        ELSE LET s == StoreLocal(m, FALSE)
             IN  IF s.outcome /= "Ok" THEN s
                 ELSE R(EndOfLocal(s.m), "Ok", NULL)

CheckRightAngleAgent_execute(m) ==
    LET g1 == get(m, K_TRI, "Triangle")
    IN  IF g1.outcome /= "Ok" THEN R(g1.m, g1.outcome, NULL)
        ELSE LET g2 == get(g1.m, K_RULES, "rules")
             IN  IF g2.outcome /= "Ok" THEN R(g2.m, g2.outcome, NULL)
                 ELSE ClassifyRight(g2.m, g1.ret)

check_right_angle_agent_execute(m) ==
    LET g1 == sc_memory_get(m, K_TRI, TypeTag("c", "Triangle"))
    IN  CASE g1.outcome = "TypeMismatch" -> R(g1.m, "TypeMismatch", NULL)
          [] g1.outcome = "Null" -> R([g1.m EXCEPT !.alive = FALSE], "Undefined", NULL)
          [] OTHER -> ClassifyRight(g1.m, g1.ret)

AnglesStep(m) ==
    IF impl = "cpp" THEN CalculateAnglesAgent_execute(m)
    ELSE calculate_angles_agent_execute(m)

CheckStep(m) ==
    IF impl = "cpp" THEN CheckRightAngleAgent_execute(m)
    ELSE check_right_angle_agent_execute(m)

\* ------------------------------------------------------------------------
\* ProcessingPipeline
\* ------------------------------------------------------------------------
\* A pipeline that goes on whatever result the step returned.
NextStage_IgnoresResult(onward, outcome) ==
    CASE outcome \in {"Ok", "Error"} -> onward
      [] outcome = "TypeMismatch" /\ impl = "cpp" -> "Thrown"
      [] OTHER -> "Aborted"

\* Where TriangleProcessingAgent::execute goes after a step that ended with
\* outcome: on when the step returned Ok, to its return of Error when the
\* step returned Error; an exception of the step leaves execute ("Thrown"),
\* an exit or undefined behaviour ends the process ("Aborted").
NextStage(onward, outcome) ==
    CASE outcome = "Ok" -> onward
      [] outcome = "Error" -> "Error"
      [] outcome = "TypeMismatch" /\ impl = "cpp" -> "Thrown"
      [] OTHER -> "Aborted"

\* What the caller of the pipeline gets at a terminal stage.
PipelineResult(stage) ==
    CASE stage = "Done" -> "Ok"
      [] stage = "Error" -> "Error"
      [] stage = "Thrown" -> "TypeMismatch"
      [] OTHER -> "Undefined"

Terminal == {"Done", "Error", "Thrown", "Aborted"}

\* The read *is_right of the pointer the get returned: the value of a live
\* object; any value when its lifetime has ended.
Deref(m, h) == IF m.heap[h].live THEN {m.heap[h].val} ELSE BOOLEAN

\* The known-flag patterns and the values the triangles are drawn from.
KnownValues == {Deg(45), Deg(90), Deg(90) + 1, Deg(90) + Tolerance}
UnknownValues == {0, Deg(90)}
Angles == {Angle(v, TRUE) : v \in KnownValues} \cup {Angle(v, FALSE) : v \in UnknownValues}
Triangles == {Triangle(a, b, c) : a \in Angles, b \in Angles, c \in Angles}

Init ==
    /\ impl \in {"cpp", "c"}
    /\ alive = TRUE
    /\ \E t \in Triangles : heap = HeapInit(t, triangle2)
    /\ data = EmptyMap
    /\ types = EmptyMap
    /\ entries = <<>>
    /\ capacity = (IF impl = "c" THEN MainCapacity ELSE 0)
    /\ pc = "idle"
    /\ events = <<>>
    /\ calls = <<>>
    /\ last = NoOp
    /\ lastStored = [k \in Keys |-> NoEntry]
    /\ rerun = FALSE

\* The history of stores after a run r of the classification step: the step
\* stores under the classification key, and returns Ok, on each of its paths
\* past the gets.
StoredAfter(r) ==
    IF r.outcome = "Ok"
    THEN [lastStored EXCEPT ![K_CLS] = [type |-> "bool", handle |-> H_LOCAL]]
    ELSE lastStored

\* The caller populates the store: the triangle key with one of its two
\* triangles, the rule-set key with its rule set.
Populate(k, h) ==
    /\ alive
    /\ pc = "idle"
    /\ LET r == StoreOp([Cur EXCEPT !.events = <<>>], k, h, KindOf(h))
       IN  /\ Install(r.m)
           /\ last' = Op("store", k, KindOf(h), h, r.outcome, r.ret, lastStored[k])
           /\ lastStored' = [lastStored EXCEPT ![k] = [type |-> KindOf(h), handle |-> h]]
    /\ rerun' = FALSE
    /\ UNCHANGED <<impl, pc, calls>>

\* The caller runs AngleCompletionStep on its own.
RunAngles ==
    /\ alive
    /\ pc = "idle"
    /\ LET r == AnglesStep([Cur EXCEPT !.events = <<>>])
       IN  /\ Install(r.m)
           /\ last' = Op("angles", K_TRI, "Triangle", NULL, r.outcome, r.ret, NoEntry)
    /\ rerun' = FALSE
    /\ UNCHANGED <<impl, pc, calls, lastStored>>

\* The caller runs RightAngleClassificationStep on its own.
RunCheck ==
    /\ alive
    /\ pc = "idle"
    /\ LET r == CheckStep([Cur EXCEPT !.events = <<>>])
       IN  /\ Install(r.m)
           /\ last' = Op("check", K_TRI, "Triangle", NULL, r.outcome, r.ret, lastStored[K_CLS])
           /\ lastStored' = StoredAfter(r)
    /\ rerun' = FALSE
    /\ UNCHANGED <<impl, pc, calls>>

\* TriangleProcessingAgent::execute is entered: the start event.
PipelineBegin ==
    /\ alive
    /\ pc = "idle"
    /\ Install(Log([Cur EXCEPT !.events = <<>>], "start", 0))
    /\ pc' = "Start"
    /\ calls' = <<>>
    /\ last' = Op("begin", "-", "-", NULL, "-", NULL, NoEntry)
    /\ rerun' = (last.op = "pipeline" /\ last.outcome = "Ok")
    /\ UNCHANGED <<impl, lastStored>>

\* Start: angles_agent.execute(ctx) and the test of its result.
PipelineAngles ==
    /\ alive
    /\ pc = "Start"
    /\ LET r == AnglesStep(Cur)
       IN  /\ Install(r.m)
           /\ pc' = NextStage("AnglesResolved", r.outcome)
           /\ calls' = Append(calls, [step |-> "angles", outcome |-> r.outcome])
           /\ last' = Op("angles", K_TRI, "Triangle", NULL, r.outcome, r.ret, NoEntry)
    /\ UNCHANGED <<impl, lastStored, rerun>>

\* AnglesResolved: check_agent.execute(ctx) and the test of its result.
PipelineClassify ==
    /\ alive
    /\ pc = "AnglesResolved"
    /\ LET r == CheckStep(Cur)
       IN  /\ Install(r.m)
           /\ pc' = NextStage("Classified", r.outcome)
           /\ calls' = Append(calls, [step |-> "check", outcome |-> r.outcome])
           /\ last' = Op("check", K_TRI, "Triangle", NULL, r.outcome, r.ret, lastStored[K_CLS])
           /\ lastStored' = StoredAfter(r)
    /\ UNCHANGED <<impl, rerun>>

\* Classified: the classification is read back and the final event emitted.
PipelineFinish ==
    /\ alive
    /\ pc = "Classified"
    /\ LET g == GetOp(Cur, K_CLS, "bool")
       IN  IF g.outcome /= "Ok"
           THEN /\ Install(IF g.outcome = "Null" THEN [g.m EXCEPT !.alive = FALSE] ELSE g.m)
                /\ pc' = NextStage("Done", IF g.outcome = "Null" THEN "Undefined" ELSE g.outcome)
                /\ last' = Op("finish", K_CLS, "bool", NULL, g.outcome, NULL, NoEntry)
           ELSE \E b \in Deref(g.m, g.ret) :
                /\ Install(Log(g.m, IF b THEN "final_right" ELSE "final_not_right", 0))
                /\ pc' = "Done"
                /\ last' = Op("finish", K_CLS, "bool", g.ret, "Ok", NULL, NoEntry)
    /\ UNCHANGED <<impl, calls, lastStored, rerun>>

\* execute returns to its caller (or its exception reaches the caller).
PipelineReturn ==
    /\ alive
    /\ pc \in Terminal
    /\ pc' = "idle"
    /\ last' = Op("pipeline", "-", "-", NULL, PipelineResult(pc), NULL, NoEntry)
    /\ UNCHANGED <<impl, alive, heap, data, types, entries, capacity, events, calls,
                   lastStored, rerun>>

Next ==
    \/ \E h \in {H_TRI1, H_TRI2} : Populate(K_TRI, h)
    \/ Populate(K_RULES, H_RULES)
    \/ RunAngles
    \/ RunCheck
    \/ PipelineBegin
    \/ PipelineAngles
    \/ PipelineClassify
    \/ PipelineFinish
    \/ PipelineReturn

Spec == Init /\ [][Next]_vars

\* ------------------------------------------------------------------------
\* Claims about the store
\* ------------------------------------------------------------------------

\* C1: round trip.  After any sequence of store operations, for every key k
\* and payload type T: when the latest store to k recorded type T, get<T>(k)
\* succeeds and returns the handle that store was given, and the object behind
\* it is an object of type T.  The get just performed returned exactly that.
C1_RoundTrip ==
    /\ alive =>
         \A k \in Keys, T \in Types :
            (lastStored[k] /= NoEntry /\ lastStored[k].type = T) =>
                LET r == GetOp(Cur, k, T)
                IN  /\ r.outcome = "Ok"
                    /\ r.ret = lastStored[k].handle
                    /\ heap[r.ret].kind = T
    /\ (last.op = "get" /\ lastStored[last.key].type = last.type) =>
            (last.outcome = "Ok" /\ last.ret = lastStored[last.key].handle)

\* A get<Triangle> of the classification key returned triangle2, which was
\* stored over an entry of another type.
C1_Witness ==
    /\ last.op = "get" /\ last.outcome = "Ok"
    /\ last.key = K_CLS /\ last.type = "Triangle" /\ last.ret = H_TRI2
    /\ Cardinality(StoredKeys(Cur)) = 3

\* C2: a get on a key that was never stored ends with KeyNotFound (it returns
\* no value, no null handle, and is not reported as a type mismatch).
C2_KeyNotFound ==
    (last.op = "get" /\ lastStored[last.key] = NoEntry) =>
        (last.outcome = "KeyNotFound" /\ last.ret = NULL)

\* C3: type mismatch.  For every key k whose latest store recorded a type
\* other than T, get<T>(k) ends with TypeMismatch and returns no handle; the
\* get just performed on such a key ended so.
C3_TypeMismatch ==
    /\ alive =>
         \A k \in Keys, T \in Types :
            (lastStored[k] /= NoEntry /\ lastStored[k].type /= T) =>
                LET r == GetOp(Cur, k, T)
                IN  r.outcome = "TypeMismatch" /\ r.ret = NULL
    /\ (last.op = "get" /\ lastStored[last.key] /= NoEntry
            /\ lastStored[last.key].type /= last.type) =>
            (last.outcome = "TypeMismatch" /\ last.ret = NULL)

\* A get<bool> of a key holding a Triangle ended with TypeMismatch.
C3_Witness ==
    /\ last.op = "get" /\ last.outcome = "TypeMismatch"
    /\ last.type = "bool" /\ lastStored[last.key].type = "Triangle"

HasTriangle(m) ==
    K_TRI \in StoredKeys(m) /\ EntryOf(m, K_TRI).type = TypeTag(impl, "Triangle")
TriHandle(m) == EntryOf(m, K_TRI).data
TriOf(m) == m.heap[TriHandle(m)].val
HasRules(m) ==
    K_RULES \in StoredKeys(m) /\ EntryOf(m, K_RULES).type = TypeTag(impl, "rules")

\* The step taken is a run of AngleCompletionStep (alone or in the pipeline)
\* on a store holding a Triangle.
AnglesRan == last'.op = "angles" /\ HasTriangle(Cur)
\* The same for RightAngleClassificationStep.
CheckRan == last'.op = "check" /\ HasTriangle(Cur)

\* What C5 says of a run on a Triangle with exactly one unknown angle.
C5_Post ==
    LET t == TriOf(Cur)
        i == FirstUnknown(t)
        g == GetOp(Cur', K_TRI, "Triangle")
        t2 == heap'[g.ret].val
    IN  /\ last'.outcome = "Ok"
        /\ g.outcome = "Ok"
        /\ t2[i] = Angle(StraightAngle - sum_known(t), TRUE)
        /\ \A j \in (1..3) \ {i} : t2[j] = t[j]
        /\ unknown_count(t2) = 0
        /\ t2[1].value + t2[2].value + t2[3].value = StraightAngle

\* C5: for every Triangle with exactly one unknown angle, whichever position
\* it is in, AngleCompletionStep returns success, sets that angle to 180 minus
\* the sum of the two known ones and marks it known, and a get<Triangle> then
\* yields a fully known Triangle whose values sum to 180.
C5_AngleCompletion ==
    [][(AnglesRan /\ unknown_count(TriOf(Cur)) = 1) => C5_Post]_vars

\* The same for the stores that also hold a rule-set entry.
C5_WithRules ==
    [][(AnglesRan /\ HasRules(Cur) /\ unknown_count(TriOf(Cur)) = 1) => C5_Post]_vars

\* C6: AngleCompletionStep returns failure exactly when 0, 2 or 3 angles are
\* unknown and success exactly when 1 is.
C6_FailureCases ==
    [][AnglesRan =>
        /\ last'.outcome \in {"Ok", "Error"}
        /\ (last'.outcome = "Error") <=> (unknown_count(TriOf(Cur)) \in {0, 2, 3})
        /\ (last'.outcome = "Ok") <=> (unknown_count(TriOf(Cur)) = 1)]_vars

\* The same for the stores that also hold a rule-set entry; a failing run
\* leaves the triangle as it was.
C6_WithRules ==
    [][(AnglesRan /\ HasRules(Cur)) =>
        /\ last'.outcome \in {"Ok", "Error"}
        /\ (last'.outcome = "Error") <=> (unknown_count(TriOf(Cur)) \in {0, 2, 3})
        /\ (last'.outcome = "Ok") <=> (unknown_count(TriOf(Cur)) = 1)
        /\ (last'.outcome = "Error") => heap' = heap]_vars

\* What C7 says of a run on a Triangle t: success, and under the
\* classification key a boolean entry whose object was given the value
\* "some angle marked known is within 0.001 of 90".
C7_Post ==
    LET t == TriOf(Cur)
        want == \E i \in 1..3 : t[i].is_known /\ t[i].value - RightAngle < Tolerance
                                              /\ RightAngle - t[i].value < Tolerance
    IN  /\ last'.outcome = "Ok"
        /\ K_CLS \in StoredKeys(Cur')
        /\ EntryOf(Cur', K_CLS).type = TypeTag(impl, "bool")
        /\ heap'[EntryOf(Cur', K_CLS).data].val = want

\* C7: RightAngleClassificationStep always returns success and stores under
\* the classification key the boolean that is true iff at least one angle
\* marked known lies within 0.001 of 90, wherever that angle stands.
C7_Classification == [][CheckRan => C7_Post]_vars

\* The same for the stores that also hold a rule-set entry.
C7_WithRules == [][(CheckRan /\ HasRules(Cur)) => C7_Post]_vars

\* The final event of the invocation, "-" when none was emitted.
FinalEvent ==
    LET S == {i \in 1..Len(events) : events[i].ev \in {"final_right", "final_not_right"}}
    IN  IF S = {} THEN "-" ELSE events[CHOOSE i \in S : TRUE].ev

\* C8: at Done the classification entry is a valid stored value, it is the
\* value the classification computed for the current triangle, and the final
\* event says right-angled exactly when it is true.
C8_ClassificationRead ==
    pc = "Done" =>
        LET h == EntryOf(Cur, K_CLS).data
        IN  /\ heap[h].live
            /\ heap[h].val = AnyRightAngle(TriOf(Cur))
            /\ (FinalEvent = "final_right") <=> AnyRightAngle(TriOf(Cur))
            /\ (FinalEvent = "final_not_right") <=> ~AnyRightAngle(TriOf(Cur))

\* What does hold at Done: the final event is one of the two, whichever.
C8_FinalEventSome ==
    pc = "Done" => FinalEvent \in {"final_right", "final_not_right"}

\* C9: with a Triangle with exactly one unknown angle under the triangle key
\* and no rule-set entry, the pipeline runs both steps and reaches Done.
C9_RulesOptional ==
    [][/\ (pc = "Start" /\ HasTriangle(Cur) /\ unknown_count(TriOf(Cur)) = 1
              /\ K_RULES \notin StoredKeys(Cur)) => pc' = "AnglesResolved"
       /\ (pc = "AnglesResolved" /\ K_RULES \notin StoredKeys(Cur)) => pc' = "Classified"
       /\ (pc = "Classified" /\ K_RULES \notin StoredKeys(Cur)) =>
              (pc' = "Done" /\ K_CLS \in StoredKeys(Cur'))]_vars

\* C10, in every state of an invocation: classification has been called only
\* as the second call, after AngleCompletionStep returned success; when
\* AngleCompletionStep did not return success nothing else was called, no
\* classification or final event was emitted, and the stage is not one of the
\* onward stages; when it returned failure the stage is Error.
C10_Inv ==
    /\ \A i \in 1..Len(calls) :
          calls[i].step = "check" =>
              (i = 2 /\ calls[1] = [step |-> "angles", outcome |-> "Ok"])
    /\ (pc /= "idle" /\ calls /= <<>> /\ calls[1].outcome /= "Ok") =>
          /\ Len(calls) = 1
          /\ pc \notin {"AnglesResolved", "Classified", "Done"}
          /\ \A i \in 1..Len(events) :
                events[i].ev \notin {"right_detected", "final_right", "final_not_right"}
          /\ calls[1].outcome = "Error" => pc = "Error"

\* C10, in every step: from Error the pipeline returns failure to its caller
\* and touches nothing; classification runs inside the pipeline only from
\* AnglesResolved.
C10_Step ==
    /\ pc = "Error" =>
          /\ pc' = "idle" /\ last'.op = "pipeline" /\ last'.outcome = "Error"
          /\ UNCHANGED <<heap, data, types, entries, events>>
    /\ (last'.op = "check" /\ pc /= "idle") =>
          (pc = "AnglesResolved" /\ calls = <<[step |-> "angles", outcome |-> "Ok"]>>)

\* C10: when AngleCompletionStep fails the pipeline moves to Error and returns
\* failure without invoking classification and without the final event;
\* classification is invoked only after AngleCompletionStep returned success
\* in the same invocation.
C10_FailureStopsPipeline == []C10_Inv /\ [][C10_Step]_vars

\* The pipeline has returned failure after AngleCompletionStep failed on a
\* triangle with two unknown angles; no classification entry exists.
C10_Witness ==
    /\ last.op = "pipeline" /\ last.outcome = "Error"
    /\ calls = <<[step |-> "angles", outcome |-> "Error"]>>
    /\ HasTriangle(Cur) /\ unknown_count(TriOf(Cur)) = 2
    /\ K_CLS \notin StoredKeys(Cur)

\* ------------------------------------------------------------------------
\* Claims about whole invocations
\* ------------------------------------------------------------------------
\* The store proper: keys, tags, handles, and the objects behind the handles.
StoreUnchanged == UNCHANGED <<heap, data, types, entries, capacity>>

\* C11, step by step: an invocation that returns failure consists of the
\* entry into the pipeline, the AngleCompletionStep that returns Error, and
\* the return; none of the three changes a key, a tag, a handle, an angle or
\* the classification entry.
C11_Step ==
    /\ (pc = "idle" /\ pc' = "Start") => StoreUnchanged
    /\ (pc = "Start" /\ pc' = "Error") => StoreUnchanged
    /\ pc' = "Error" => pc = "Start"
    /\ pc = "Error" => (StoreUnchanged /\ pc' = "idle" /\ last'.outcome = "Error")
    /\ (last'.op = "pipeline" /\ last'.outcome = "Error") => pc = "Error"

\* C11: a pipeline invocation that returns failure leaves the store exactly
\* as it was: the same keys, tags and Triangle angles, the classification key
\* neither created nor changed.
C11_FailureLeavesStore == [][C11_Step]_vars

\* The pipeline has returned failure on a fully known triangle while the
\* classification of an earlier run is in the store.
C11_Witness ==
    /\ last.op = "pipeline" /\ last.outcome = "Error"
    /\ HasTriangle(Cur) /\ unknown_count(TriOf(Cur)) = 0
    /\ K_CLS \in StoredKeys(Cur)
    /\ lastStored[K_CLS] = [type |-> "bool", handle |-> H_LOCAL]

\* Some angle of t marked known is within 0.001 of 90, said without the
\* step's own operators.
HasRightAngle(t) ==
    \E i \in 1..3 : /\ t[i].is_known
                    /\ t[i].value - RightAngle < Tolerance
                    /\ RightAngle - t[i].value < Tolerance

\* What a run of the pipeline on a Triangle with exactly one unknown angle
\* does stage by stage; valid says whether the classification entry must be a
\* live value that the final event reports.
C12_Step(valid) ==
    /\ (pc = "Start" /\ HasTriangle(Cur) /\ unknown_count(TriOf(Cur)) = 1) =>
          LET t == TriOf(Cur)
              t2 == TriOf(Cur')
              i == FirstUnknown(t)
          IN  /\ pc' = "AnglesResolved"
              /\ t2 = [t EXCEPT ![i] = Angle(StraightAngle - sum_known(t), TRUE)]
    /\ pc = "AnglesResolved" =>
          /\ pc' = "Classified"
          /\ TriOf(Cur') = TriOf(Cur)
          /\ EntryCount(Cur', K_CLS) = 1
          /\ heap'[EntryOf(Cur', K_CLS).data].val = HasRightAngle(TriOf(Cur))
    /\ pc = "Classified" =>
          /\ pc' = "Done"
          /\ StoreUnchanged
          /\ valid =>
                /\ heap'[EntryOf(Cur', K_CLS).data].live
                /\ (Event("final_right", 0) = events'[Len(events')])
                       <=> HasRightAngle(TriOf(Cur))
    /\ pc = "Done" => (pc' = "idle" /\ last'.outcome = "Ok" /\ StoreUnchanged)

\* C12: every run of the pipeline on a store whose triangle key was (re-)stored
\* with a Triangle with exactly one unknown angle returns success, completes
\* the missing angle of that triangle, and leaves under the classification
\* key the boolean of that run's triangle, which the final event reports.
C12_EndToEnd == [][C12_Step(TRUE)]_vars

\* What holds of the runs on stores that also hold a rule-set entry: success,
\* the completed angle, and a classification entry whose object was given this
\* run's boolean when it was stored (not that of an earlier run).
C12_WithRules == [][HasRules(Cur) => C12_Step(FALSE)]_vars

\* What C13 says of a step taken on a Triangle with exactly one unknown angle
\* whose known angles sum to 180 or more.
C13_Step ==
    /\ (AnglesRan /\ unknown_count(TriOf(Cur)) = 1
            /\ sum_known(TriOf(Cur)) >= StraightAngle) =>
          LET t == TriOf(Cur)
              i == FirstUnknown(t)
          IN  /\ last'.outcome = "Ok"
              /\ TriOf(Cur')[i].is_known
              /\ TriOf(Cur')[i].value = StraightAngle - sum_known(t)
              /\ TriOf(Cur')[i].value <= 0
    /\ (CheckRan /\ pc = "AnglesResolved"
            /\ (\E j \in 1..3 : TriOf(Cur)[j].value <= 0)
            /\ \E i \in 1..3 : TriOf(Cur)[i] = Angle(RightAngle, TRUE)) =>
          /\ last'.outcome = "Ok"
          /\ pc' = "Classified"
          /\ heap'[EntryOf(Cur', K_CLS).data].val = TRUE

\* C13: AngleCompletionStep does not validate the geometry: with exactly one
\* unknown angle and known angles summing to 180 or more it still returns
\* success and sets the missing angle to 180 minus the sum (0 or negative),
\* and the pipeline then classifies the triangle as right-angled when a known
\* angle is 90.
C13_NoValidation == [][C13_Step]_vars

\* The same for the stores that also hold a rule-set entry.
C13_WithRules == [][HasRules(Cur) => C13_Step]_vars

\* The case of C13 as it occurs: the pipeline has classified a triangle whose
\* completed angle is negative, and the object stored was given true.
C13_CaseReached ==
    /\ pc = "Classified" /\ HasTriangle(Cur)
    /\ \E j \in 1..3 : TriOf(Cur)[j].value < 0
    /\ heap[EntryOf(Cur, K_CLS).data].val = TRUE

\* C14, in a step: the classification step has just returned success on a
\* fully known Triangle and is run again.  It returns success again, the
\* object it stores is given the same boolean, there is still one
\* classification entry (the same tag and handle), and no key, no other entry
\* and no angle has changed.
C14_Step ==
    (last.op = "check" /\ last.outcome = "Ok" /\ last'.op = "check"
        /\ HasTriangle(Cur) /\ unknown_count(TriOf(Cur)) = 0) =>
        /\ last'.outcome = "Ok"
        /\ EntryCount(Cur', K_CLS) = 1
        /\ EntryOf(Cur', K_CLS) = EntryOf(Cur, K_CLS)
        /\ heap'[EntryOf(Cur', K_CLS).data].val = heap[EntryOf(Cur, K_CLS).data].val
        /\ StoredKeys(Cur') = StoredKeys(Cur)
        /\ \A k \in StoredKeys(Cur) : EntryOf(Cur', k) = EntryOf(Cur, k)
        /\ \A h \in {H_TRI1, H_TRI2} : heap'[h] = heap[h]

\* C14: idempotence of the classification step.
C14_Idempotent == [][C14_Step]_vars

\* The classification step has run on a fully known Triangle with a right
\* angle in a store that already held its classification.
C14_Witness ==
    /\ last.op = "check" /\ last.outcome = "Ok"
    /\ last.prev = [type |-> "bool", handle |-> H_LOCAL]
    /\ HasTriangle(Cur) /\ unknown_count(TriOf(Cur)) = 0
    /\ heap[EntryOf(Cur, K_CLS).data].val = TRUE
    /\ EntryCount(Cur, K_CLS) = 1

\* The moves of the stage the claim allows: the order Start, AnglesResolved,
\* Classified, Done, left only for Error, and the return from Done or Error.
AllowedMoves ==
    {<<"idle", "Start">>, <<"Start", "AnglesResolved">>, <<"Start", "Error">>,
     <<"AnglesResolved", "Classified">>, <<"AnglesResolved", "Error">>,
     <<"Classified", "Done">>, <<"Classified", "Error">>,
     <<"Done", "idle">>, <<"Error", "idle">>}

\* What C15 says of a step of an invocation on a store holding a Triangle.
C15_Move ==
    (HasTriangle(Cur) /\ (pc /= "idle" \/ pc' /= "idle")) =>
        /\ <<pc, pc'>> \in AllowedMoves
        /\ alive'
        /\ pc = "Done" => (last'.op = "pipeline" /\ last'.outcome = "Ok")
        /\ pc = "Error" => (last'.op = "pipeline" /\ last'.outcome = "Error")

\* C15: an invocation on a store holding a Triangle visits the stages only in
\* the order Start, AnglesResolved, Classified, Done, leaves the order only
\* for Error, and ends in Done with success or in Error with failure: no
\* escaping exception, no process exit.
C15_StageOrder == [][C15_Move]_vars

\* The same for the stores that also hold a rule-set entry.
C15_WithRules == [][HasRules(Cur) => C15_Move]_vars

\* What C16 says of one step and one angle of a triangle object.
C16_Angle(h, i) ==
    LET a == heap[h].val[i]
        b == heap'[h].val[i]
    IN  /\ a.is_known => b = a
        /\ b /= a =>
              /\ last'.op = "angles"
              /\ last'.outcome = "Ok"
              /\ HasTriangle(Cur)
              /\ h = TriHandle(Cur)
              /\ unknown_count(heap[h].val) = 1
              /\ i = FirstUnknown(heap[h].val)
              /\ b.is_known

\* C16: no step of the program (store, get, either pipeline step, the
\* pipeline) makes a known angle unknown or changes the value of a known
\* angle; the only angle ever written is the single unknown one of the stored
\* triangle, by a successful AngleCompletionStep.
C16_KnownAnglesKept == [][\A h \in {H_TRI1, H_TRI2} : \A i \in 1..3 : C16_Angle(h, i)]_vars

\* A successful completion of the third angle has just left the two known
\* angles, of which the first is a right one, as they were.
C16_Witness ==
    /\ last.op = "angles"
    /\ last.outcome = "Ok"
    /\ HasTriangle(Cur)
    /\ events /= <<>>
    /\ events[Len(events)].ev = "calculated"
    /\ TriOf(Cur)[1] = Angle(RightAngle, TRUE)
    /\ TriOf(Cur)[3].value = StraightAngle - TriOf(Cur)[1].value - TriOf(Cur)[2].value

\* The positions of the events of the given names in this invocation's log.
EventsNamed(names) == {i \in 1..Len(events) : events[i].ev \in names}

\* The invocation is under way, or has just returned to its caller.
InInvocation == pc /= "idle" \/ last.op = "pipeline"

\* The invocation is about to return failure, or has just returned it.
FailureReturn == pc = "Error" \/ (last.op = "pipeline" /\ last.outcome = "Error")

\* The invocation is about to return success, or has just returned it.
SuccessReturn == pc = "Done" \/ (last.op = "pipeline" /\ last.outcome = "Ok")

\* C17: in every pipeline invocation the start event is the first event and
\* is emitted once; a failure return has the error event before it, as the
\* last event of the invocation, whether no angle or several angles were
\* unknown; a successful invocation has the computed-angle event before the
\* final classification event, and the final event is the last one.
C17_EventOrder ==
    /\ InInvocation => (EventsNamed({"start"}) = {1})
    /\ FailureReturn =>
          /\ EventsNamed({"angle_error"}) = {Len(events)}
          /\ EventsNamed({"calculated", "final_right", "final_not_right"}) = {}
    /\ SuccessReturn =>
          /\ EventsNamed({"final_right", "final_not_right"}) = {Len(events)}
          /\ \E i \in EventsNamed({"calculated"}) : i < Len(events)
          /\ EventsNamed({"angle_error"}) = {}

\* A failure return of an invocation on a triangle with two or more unknown
\* angles, the error event behind the start event.
C17_Witness ==
    /\ last.op = "pipeline"
    /\ last.outcome = "Error"
    /\ HasTriangle(Cur)
    /\ unknown_count(TriOf(Cur)) >= 2
    /\ events = <<Event("start", 0), Event("angle_error", 0)>>

\* The other two cases of C17: a failure return with no unknown angle, and a
\* success return with the right-angle event between the computed-angle event
\* and the final one.
C17_ZeroUnknownReached ==
    /\ pc = "Error"
    /\ HasTriangle(Cur)
    /\ unknown_count(TriOf(Cur)) = 0
    /\ events = <<Event("start", 0), Event("angle_error", 0)>>

C17_SuccessReached ==
    /\ last.op = "pipeline"
    /\ last.outcome = "Ok"
    /\ Len(events) = 4
    /\ events[2].ev = "calculated"
    /\ events[3].ev = "right_detected"
    /\ events[4].ev = "final_right"

\* What C18 says of a step of an invocation that began right after a
\* successful one returned, with no store in between.
C18_Step ==
    /\ (pc = "idle" /\ rerun') =>
          /\ pc' = "Start"
          /\ HasTriangle(Cur)
          /\ unknown_count(TriOf(Cur)) = 0
          /\ EntryCount(Cur, K_CLS) = 1
          /\ StoreUnchanged
    /\ (pc = "Start" /\ rerun) =>
          /\ pc' = "Error"
          /\ last'.op = "angles"
          /\ last'.outcome = "Error"
          /\ StoreUnchanged
    /\ (pc = "Error" /\ rerun) =>
          /\ pc' = "idle"
          /\ last'.op = "pipeline"
          /\ last'.outcome = "Error"
          /\ calls = <<[step |-> "angles", outcome |-> "Error"]>>
          /\ StoreUnchanged
    /\ (rerun /\ rerun') =>
          /\ pc' \in {"Start", "Error", "idle"}
          /\ lastStored' = lastStored

\* C18: a pipeline invocation that follows a successful one on the same store,
\* with no Triangle stored in between, returns failure from the angle step
\* (no angle is unknown), never calls the classification step, and leaves the
\* Triangle and the classification entry of the first invocation as they were.
C18_NotRerunnable == [][C18_Step]_vars

\* The second invocation has returned failure; the classification of the
\* first one is still the stored entry.
C18_Witness ==
    /\ pc = "idle"
    /\ rerun
    /\ last.op = "pipeline"
    /\ last.outcome = "Error"
    /\ unknown_count(TriOf(Cur)) = 0
    /\ EntryCount(Cur, K_CLS) = 1
    /\ lastStored[K_CLS] = [type |-> "bool", handle |-> H_LOCAL]
    /\ events = <<Event("start", 0), Event("angle_error", 0)>>

\* ------------------------------------------------------------------------
\* Claims about the frame of get and about the array of the C port
\* ------------------------------------------------------------------------
\* A get has just left keys, tags, handles and objects as they were.
C19_GetKeepsStore == last'.op = "get" => StoreUnchanged

\* The value map and the type-tag map have the same keys.
C19_KeySetsEqual == DOMAIN data = DOMAIN types

\* C19: get is read-only, whether it succeeds or fails on an absent key or a
\* mismatched type, so after any sequence of store and get the value map and
\* the type-tag map have the same set of keys.
C19_GetReadOnly == []C19_KeySetsEqual /\ [][C19_GetKeepsStore]_vars

\* The same for the gets of keys that have been stored.
C19_StoredKeysOnly ==
    [][(last'.op = "get" /\ last'.key \in StoredKeys(Cur)) => StoreUnchanged]_vars

\* The array of the C port alone: sc_memory_init with any capacity from 0 on,
\* then any sequence of sc_memory_store calls.
InitCap ==
    /\ impl = "c"
    /\ alive = TRUE
    /\ heap = HeapInit(triangle1, triangle2)
    /\ data = EmptyMap
    /\ types = EmptyMap
    /\ entries = <<>>
    /\ capacity \in 0..MaxInitCap
    /\ pc = "idle"
    /\ events = <<>>
    /\ calls = <<>>
    /\ last = NoOp
    /\ lastStored = [k \in Keys |-> NoEntry]
    /\ rerun = FALSE

NextCap == \E k \in Keys, h \in CallerHandles : CallerStore(k, h)

SpecCap == InitCap /\ [][NextCap]_vars

\* The count is within the capacity and the store just made wrote inside
\* the allocation.
C20_Inv ==
    /\ Len(entries) <= capacity
    /\ last.op = "store" => last.outcome = "Ok"

\* The count grows by one exactly when the key is new.
C20_Step ==
    last'.op = "store" =>
        Len(entries') = Len(entries) + (IF last'.key \in StoredKeys(Cur) THEN 0 ELSE 1)

\* C20: after sc_memory_init with any initial capacity, 0 included, and any
\* sequence of sc_memory_store calls, the entry count never exceeds the
\* capacity, every entry is written at an index below the capacity, and the
\* count grows by one exactly when the key is new.
C20_CountWithinCapacity == []C20_Inv /\ [][C20_Step]_vars

\* The same for the initial capacities from 1 on (doubling keeps a capacity
\* of 0 at 0 and a positive one positive).
C20_PositiveCapacity == [](capacity > 0 => C20_Inv) /\ [][capacity > 0 => C20_Step]_vars

\* The array has grown: three entries in a capacity of 4 that began as 1.
C20_Doubled == Len(entries) = 3 /\ capacity = 4

====
